---- MODULE Spec2Model ----
(***************************************************************************)
(* Zetta protocol: the frame encoder (zetta_send), the byte-wise receive   *)
(* state machine (zetta_ParseByte), the gate shared by both directions and *)
(* the completion callbacks, as written in Core/src/zetta_protocol.c and   *)
(* driven as in the STM32 main.c.                                          *)
(***************************************************************************)
EXTENDS Integers, Sequences, FiniteSets, TLC

\* ------------------------------------------------------------------------
\* Program constants (Core/inc/zetta_protocol.h)
\* ------------------------------------------------------------------------
START_BYTE == 170
STOP_BYTE == 188
MAX_PAYLOAD_SIZE == 25
\* sizeof(ZettaFrame_t), packed: start, type, len, payload[25], crc, stop
MAX_ZETTA_FRAME_SIZE == 1 + 1 + 1 + MAX_PAYLOAD_SIZE + 1 + 1

MSG_ACK == 0
MSG_PUBLISH == 1
MSG_SUBSCRIBE == 2

STATE_RX_WAIT_START == 0
STATE_RX_GET_TYPE == 1
STATE_RX_GET_LEN == 2
STATE_RX_GET_PAYLOAD == 3
STATE_RX_GET_CRC == 4
STATE_RX_GET_STOP == 5

ZETTA_ERROR == 0
ZETTA_OK == 1
ZETTA_ERROR_TYPE == 2
ZETTA_FRAME_ERROR == 3
ZETTA_ERROR_INVALID_START == 4
ZETTA_ERROR_PAYLOAD_TOO_LARGE == 5
ZETTA_ERROR_CRC_MISMATCH == 6
ZETTA_ERROR_INVALID_STOP == 7

ZETTA_STATE_TX_BUSY == 0
ZETTA_STATE_TX_READY == 1
ZETTA_STATE_RX_READY == 2
ZETTA_STATE_RX_BUSY == 3

\* Number of values of a uint8_t.
Pow8 == 256

\* ------------------------------------------------------------------------
\* Bounds of the model
\* ------------------------------------------------------------------------
\* Longest payload sent over the link in SpecLink.
MaxLen == 2
\* Frames sent over the link in one run of SpecLink.
MaxFrames == 2
\* Pieces joined into one buffer for zetta_ProcessBuffer in SpecBatch.
MaxChunks == 2

\* ------------------------------------------------------------------------
\* Input sets
\* ------------------------------------------------------------------------
\* Bytes fed to the parser: a zero and a nonzero length (also a type, a
\* payload byte and a crc byte), and the two delimiters (both above
\* MAX_PAYLOAD_SIZE, so they are also oversized length bytes).
FeedBytes == {0, 1, START_BYTE, STOP_BYTE}
\* Buffers handed to zetta_ProcessBuffer: none, a whole zero-length frame
\* with the crc of an additive checksum, the same with a wrong crc, the head
\* of a frame with one payload byte, and a stray stop and start.
FeedBuffers ==
    { <<>>,
      <<START_BYTE, 0, 0, 0, STOP_BYTE>>,
      <<START_BYTE, 0, 0, 1, STOP_BYTE>>,
      <<START_BYTE, 1, 1>>,
      <<STOP_BYTE, START_BYTE>> }
\* Payload bytes and types handed to zetta_send over the link.
SendBytes == {1, START_BYTE}
SendTypes == {MSG_ACK, MSG_PUBLISH}
\* Lengths zetta_send must reject (len is a uint8_t).
TooLong == {MAX_PAYLOAD_SIZE + 1, Pow8 - 1}

\* The injected integrity functions: an additive checksum kept in one byte
\* and the same checksum kept in the full 32-bit result.
CrcFns == {"sum8", "sum32"}
\* Callbacks a caller can put in the interface: none (NULL) or its own.
CallerClbks == {"NULL", "user"}

Instances == {"hzettatx", "hzettarx"}

\* ------------------------------------------------------------------------
\* Pure helpers
\* ------------------------------------------------------------------------
RECURSIVE SumBytes(_)
SumBytes(s) == IF s = <<>> THEN 0 ELSE Head(s) + SumBytes(Tail(s))

\* ZettaComputeCRC: the injected function, uint32_t result. The sum of the
\* at most 2 + MAX_PAYLOAD_SIZE covered bytes is below 2^32, so the 32-bit
\* sum never wraps.
computeCRC(fn, data) ==
    IF fn = "sum8" THEN SumBytes(data) % Pow8
    ELSE SumBytes(data)

ZeroPayload == [k \in 1..MAX_PAYLOAD_SIZE |-> 0]
ZeroTxBuf == [k \in 1..MAX_ZETTA_FRAME_SIZE |-> 0]

\* memcpy(dst, src, n) into the front of a byte array.
Memcpy(dst, src, n) ==
    [k \in DOMAIN dst |-> IF k <= n THEN src[k] ELSE dst[k]]

\* The bytes type, len, payload[0..len) of the instance's frame, which is
\* what &frame.type with 1 + 1 + len bytes covers in the packed struct.
CoveredBytes(z) ==
    <<z.frame.type, z.frame.len>> \o SubSeq(z.frame.payload, 1, z.frame.len)

zetta_compute_crc(z) == computeCRC(z.interface.computeCRC, CoveredBytes(z))

zetta_check_type(byte) == ZETTA_OK

\* ------------------------------------------------------------------------
\* Operations of zetta_protocol.c, as functions of the instance record
\* ------------------------------------------------------------------------
\* zetta_init: memset to 0, the gate at RX_READY, the caller's interface
\* copied, and then the three callbacks set to the library's own.
zetta_init(interface) ==
    [ interface |-> [interface EXCEPT
                        !.rxCpltClbk = "zetta_recieve_cplt_clb",
                        !.txCpltClbk = "zetta_transmit_cplt_clb",
                        !.OnError = "zetta_error_manager"],
      pstate |-> ZETTA_STATE_RX_READY,
      index |-> 0,
      frame |-> [start |-> 0, type |-> 0, len |-> 0,
                 payload |-> ZeroPayload, crc |-> 0, stop |-> 0],
      error |-> ZETTA_OK,
      rx_frame_state |-> STATE_RX_WAIT_START,
      payload_ready |-> 0 ]

\* Mutant of zetta_error_manager: the receive state is left as it is.
zetta_error_manager_NoReset(z, error) == z

\* Mutant of zetta_error_manager: the whole receive context is reset.
zetta_error_manager_ResetAll(z, error) ==
    [z EXCEPT !.rx_frame_state = STATE_RX_WAIT_START,
              !.index = 0,
              !.frame.len = 0,
              !.payload_ready = 0]

zetta_error_manager(z, error) ==
    [z EXCEPT !.rx_frame_state = STATE_RX_WAIT_START]

\* packet->interface.OnError(packet, error): the installed handler runs. A
\* handler of the caller's own does not touch the instance.
OnError(z, error) ==
    IF z.interface.OnError = "zetta_error_manager"
    THEN zetta_error_manager(z, error)
    ELSE z

\* Mutant of zetta_recieve_cplt_clb: the other RX value of the gate.
zetta_recieve_cplt_clb_Busy(z) == [z EXCEPT !.pstate = ZETTA_STATE_RX_BUSY]

zetta_recieve_cplt_clb(z) == [z EXCEPT !.pstate = ZETTA_STATE_RX_READY]

zetta_transmit_cplt_clb(z) == [z EXCEPT !.pstate = ZETTA_STATE_TX_READY]

\* The busy-wait loops at the head of zetta_send and zetta_ParseByte: the
\* call goes on only once the gate has the other value.
SendWaits(z) == z.pstate = ZETTA_STATE_TX_BUSY
ParseWaits(z) == z.pstate = ZETTA_STATE_RX_BUSY

\* zetta_send, lines 57-61: the oversized length is reported to the hook
\* and returned; the globals and the gate are not touched.
SendRejected(z, buf, size) ==
    [ z |-> OnError(z, ZETTA_ERROR_PAYLOAD_TOO_LARGE),
      tx_buf |-> buf, buf_tx_size |-> size,
      ret |-> ZETTA_ERROR_PAYLOAD_TOO_LARGE,
      hooks |-> <<ZETTA_ERROR_PAYLOAD_TOO_LARGE>>,
      called |-> FALSE, sent |-> <<>> ]

\* zetta_send, lines 63-82: tx_buf is cleared and filled, the gate is taken,
\* the instance's frame record is overwritten, the crc is cut to the one
\* byte of frame.crc, and the transport is called with tx_buf.
SendAccepted(z, type, pData, len) ==
    LET z1 == [z EXCEPT !.pstate = ZETTA_STATE_TX_BUSY,
                        !.frame.type = type,
                        !.frame.len = len,
                        !.frame.payload = Memcpy(@, pData, len)]
        crc == zetta_compute_crc(z1) % Pow8
        z2 == [z1 EXCEPT !.frame.crc = crc]
        bytes == <<START_BYTE, type, len>> \o SubSeq(pData, 1, len)
                    \o <<crc, STOP_BYTE>>
        b == Memcpy(ZeroTxBuf, bytes, Len(bytes))
    IN [ z |-> z2, tx_buf |-> b, buf_tx_size |-> Len(bytes),
         ret |-> ZETTA_OK, hooks |-> <<>>,
         called |-> TRUE, sent |-> SubSeq(b, 1, Len(bytes)) ]

\* Mutant of zetta_send: the gate is taken before the length is checked.
zetta_send_GateFirst(z, buf, size, type, pData, len) ==
    IF len > MAX_PAYLOAD_SIZE
    THEN SendRejected([z EXCEPT !.pstate = ZETTA_STATE_TX_BUSY], buf, size)
    ELSE SendAccepted(z, type, pData, len)

\* Mutant of zetta_send: the integrity value is computed before type, len
\* and payload are written to the instance's frame.
zetta_send_StaleCrc(z, buf, size, type, pData, len) ==
    IF len > MAX_PAYLOAD_SIZE
    THEN SendRejected(z, buf, size)
    ELSE LET crc == zetta_compute_crc(z) % Pow8
             bytes == <<START_BYTE, type, len>> \o SubSeq(pData, 1, len)
                         \o <<crc, STOP_BYTE>>
             b == Memcpy(ZeroTxBuf, bytes, Len(bytes))
         IN [ z |-> [z EXCEPT !.pstate = ZETTA_STATE_TX_BUSY,
                              !.frame.type = type,
                              !.frame.len = len,
                              !.frame.payload = Memcpy(@, pData, len),
                              !.frame.crc = crc],
              tx_buf |-> b, buf_tx_size |-> Len(bytes),
              ret |-> ZETTA_OK, hooks |-> <<>>,
              called |-> TRUE, sent |-> SubSeq(b, 1, Len(bytes)) ]

\* zetta_send past its wait loop. The result holds the instance, the two
\* globals, the return value, the error codes handed to the hook and the
\* bytes handed to the transport (<<>> and called = FALSE when it is not
\* called).
zetta_send(z, buf, size, type, pData, len) ==
    IF len > MAX_PAYLOAD_SIZE
    THEN SendRejected(z, buf, size)
    ELSE SendAccepted(z, type, pData, len)

\* The error exit of a zetta_ParseByte case: _internal.error is set and the
\* hook is called.
RxFail(z, error) ==
    [ z |-> OnError([z EXCEPT !.error = error], error),
      ret |-> ZETTA_ERROR, hooks |-> <<error>> ]

RxStep(z) == [ z |-> z, ret |-> ZETTA_ERROR, hooks |-> <<>> ]

\* The comparison in GET_STOP: the uint32_t result against the uint8_t
\* field, which C promotes without truncating the result.
CrcMatches(crc_val, crc) == crc_val = crc

\* Mutant of LenAccepted: the bound is off by one.
LenAccepted_OffByOne(byte) == byte <= MAX_PAYLOAD_SIZE + 1

\* The test of GET_LEN on the received length byte.
LenAccepted(byte) == byte <= MAX_PAYLOAD_SIZE

\* Mutant of LenNextState: the payload state also for a zero length.
LenNextState_NoSkip(byte) == STATE_RX_GET_PAYLOAD

\* The state GET_LEN moves to on an accepted length byte.
LenNextState(byte) ==
    IF byte = 0 THEN STATE_RX_GET_CRC ELSE STATE_RX_GET_PAYLOAD

\* Mutant of PayloadDone: the payload state is left only at index = len.
PayloadDone_Equal(index, len) == index = len

\* The test that ends GET_PAYLOAD, on the index after the write.
PayloadDone(index, len) == index >= len

\* zetta_ParseByte past its wait loop: one byte through the switch. A write
\* at an index of MAX_PAYLOAD_SIZE or more would fall outside payload; the
\* model leaves payload as it is there.
zetta_ParseByte(z, byte) ==
    CASE z.rx_frame_state = STATE_RX_WAIT_START ->
           IF byte = START_BYTE
           THEN RxStep([z EXCEPT !.rx_frame_state = STATE_RX_GET_TYPE,
                                 !.frame.start = START_BYTE,
                                 !.index = 0])
           ELSE RxFail(z, ZETTA_ERROR_INVALID_START)
      [] z.rx_frame_state = STATE_RX_GET_TYPE ->
           IF zetta_check_type(byte) # 0
           THEN RxStep([z EXCEPT !.frame.type = byte,
                                 !.rx_frame_state = STATE_RX_GET_LEN])
           ELSE RxFail(z, ZETTA_ERROR_TYPE)
      [] z.rx_frame_state = STATE_RX_GET_LEN ->
           IF LenAccepted(byte)
           THEN RxStep([z EXCEPT !.frame.len = byte,
                                 !.rx_frame_state = LenNextState(byte)])
           ELSE RxFail(z, ZETTA_ERROR_PAYLOAD_TOO_LARGE)
      [] z.rx_frame_state = STATE_RX_GET_PAYLOAD ->
           LET z1 == [z EXCEPT !.frame.payload =
                                   [k \in DOMAIN @ |->
                                       IF k = z.index + 1 THEN byte ELSE @[k]],
                               !.index = (@ + 1) % Pow8]
           IN RxStep(IF PayloadDone(z1.index, z1.frame.len)
                     THEN [z1 EXCEPT !.rx_frame_state = STATE_RX_GET_CRC]
                     ELSE z1)
      [] z.rx_frame_state = STATE_RX_GET_CRC ->
           RxStep([z EXCEPT !.frame.crc = byte,
                            !.rx_frame_state = STATE_RX_GET_STOP])
      [] z.rx_frame_state = STATE_RX_GET_STOP ->
           IF byte = STOP_BYTE
           THEN LET z1 == [z EXCEPT !.rx_frame_state = STATE_RX_WAIT_START,
                                    !.frame.stop = STOP_BYTE]
                IN IF CrcMatches(zetta_compute_crc(z1), z1.frame.crc)
                   THEN [ z |-> [z1 EXCEPT !.payload_ready = 1],
                          ret |-> ZETTA_OK, hooks |-> <<>> ]
                   ELSE RxFail(z1, ZETTA_ERROR_CRC_MISMATCH)
           ELSE RxFail(z, ZETTA_ERROR_INVALID_STOP)
      [] OTHER -> RxFail(z, ZETTA_FRAME_ERROR)

\* zetta_ProcessBuffer: the bytes in order, stopping at the first ZETTA_OK.
\* used counts the bytes consumed.
RECURSIVE ProcessFrom(_, _, _, _)
ProcessFrom(z, pData, i, hooks) ==
    IF i > Len(pData)
    THEN [ z |-> z, ret |-> ZETTA_ERROR, hooks |-> hooks, used |-> Len(pData) ]
    ELSE LET r == zetta_ParseByte(z, pData[i])
         IN IF r.ret = ZETTA_OK
            THEN [ z |-> r.z, ret |-> ZETTA_OK, hooks |-> hooks \o r.hooks,
                   used |-> i ]
            ELSE ProcessFrom(r.z, pData, i + 1, hooks \o r.hooks)

\* Mutant of zetta_ProcessBuffer: the loop goes on after a ZETTA_OK and the
\* result is ZETTA_OK when any byte gave it.
RECURSIVE ProcessAll(_, _, _, _, _)
ProcessAll(z, pData, i, hooks, ret) ==
    IF i > Len(pData)
    THEN [ z |-> z, ret |-> ret, hooks |-> hooks, used |-> Len(pData) ]
    ELSE LET r == zetta_ParseByte(z, pData[i])
         IN ProcessAll(r.z, pData, i + 1, hooks \o r.hooks,
                       IF r.ret = ZETTA_OK THEN ZETTA_OK ELSE ret)

zetta_ProcessBuffer_NoStop(z, pData) ==
    ProcessAll(z, pData, 1, <<>>, ZETTA_ERROR)

zetta_ProcessBuffer(z, pData) == ProcessFrom(z, pData, 1, <<>>)

\* Zetta_GetPayload: the first len payload bytes, copied only when a frame
\* is marked ready (pDest is left as it was otherwise).
Zetta_GetPayload(z, pDest) ==
    IF z.payload_ready # 0
    THEN SubSeq(z.frame.payload, 1, z.frame.len)
            \o SubSeq(pDest, z.frame.len + 1, Len(pDest))
    ELSE pDest

Zetta_GetType(z) == IF z.payload_ready # 0 THEN z.frame.type ELSE MSG_ACK

\* ------------------------------------------------------------------------
\* State
\* ------------------------------------------------------------------------
VARIABLES
    h,            \* the Zetta_t instances (main.c: hzettatx, hzettarx)
    given,        \* the interface the caller handed to zetta_init
    tx_buf,       \* the global transmit buffer
    buf_tx_size,  \* the global count of bytes in tx_buf
    inFlight,     \* instances whose buffer the transport holds
    last,         \* the last call: operation, instance, result, hook codes
    wire,         \* bytes on the link, not yet delivered to the receiver
    sentLog,      \* frames given to zetta_send over the link
    rxLog,        \* frames the receiver took out after a ZETTA_OK
    mainPc,       \* main-line caller: "idle", "in_parse" (inside
                  \* zetta_ParseByte), "in_send" or "in_send_stuck" (inside
                  \* the wait loop of zetta_send)
    mainByte      \* the byte or the len of the main-line call in progress

vars == <<h, given, tx_buf, buf_tx_size, inFlight, last, wire, sentLog,
          rxLog, mainPc, mainByte>>

linkVars == <<wire, sentLog, rxLog>>
mainVars == <<mainPc, mainByte>>

\* The interfaces a caller builds: transport and integrity function set,
\* the callbacks left NULL (main.c: zetta1_interface) or set to its own.
CallerInterfaces ==
    { [send |-> "uart_stm32_send_dma", receive |-> "uart_stm32_receive_dma",
       computeCRC |-> fn, rxCpltClbk |-> c, txCpltClbk |-> c, OnError |-> c]
        : fn \in CrcFns, c \in CallerClbks }

\* arg: the len of a zetta_send, the byte of a zetta_ParseByte, the buffer
\* of a zetta_ProcessBuffer. called: the transport's send was called.
Call(op, i, arg, ret, hooks, called) ==
    [op |-> op, inst |-> i, arg |-> arg, ret |-> ret, hooks |-> hooks,
     called |-> called]

\* main.c: zetta1_interface, with an additive 32-bit checksum in the place
\* of the CRC peripheral.
zetta1_interface ==
    [send |-> "uart_stm32_send_dma", receive |-> "uart_stm32_receive_dma",
     computeCRC |-> "sum32", rxCpltClbk |-> "NULL", txCpltClbk |-> "NULL",
     OnError |-> "NULL"]

\* main.c: both instances are initialised with the same interface.
InitWith(interfaces) ==
    /\ given \in interfaces
    /\ h = [i \in Instances |-> zetta_init(given)]
    /\ tx_buf = ZeroTxBuf
    /\ buf_tx_size = 0
    /\ inFlight = {}
    /\ last = Call("zetta_init", "hzettatx", 0, ZETTA_OK, <<>>, FALSE)
    /\ wire = <<>>
    /\ sentLog = <<>>
    /\ rxLog = <<>>
    /\ mainPc = "idle"
    /\ mainByte = 0

\* ------------------------------------------------------------------------
\* Actions: one call of a public operation on instance i
\* ------------------------------------------------------------------------
Send(i, type, pData, len) ==
    /\ ~SendWaits(h[i])
    /\ LET r == zetta_send(h[i], tx_buf, buf_tx_size, type, pData, len)
       IN /\ h' = [h EXCEPT ![i] = r.z]
          /\ tx_buf' = r.tx_buf
          /\ buf_tx_size' = r.buf_tx_size
          /\ inFlight' = IF r.called THEN inFlight \cup {i} ELSE inFlight
          /\ last' = Call("zetta_send", i, len, r.ret, r.hooks, r.called)
    /\ UNCHANGED given

Parse(i, byte) ==
    /\ ~ParseWaits(h[i])
    /\ LET r == zetta_ParseByte(h[i], byte)
       IN /\ h' = [h EXCEPT ![i] = r.z]
          /\ last' = Call("zetta_ParseByte", i, byte, r.ret, r.hooks, FALSE)
    /\ UNCHANGED <<given, tx_buf, buf_tx_size, inFlight>>

Process(i, pData) ==
    /\ pData # <<>> => ~ParseWaits(h[i])
    /\ LET r == zetta_ProcessBuffer(h[i], pData)
       IN /\ h' = [h EXCEPT ![i] = r.z]
          /\ last' = Call("zetta_ProcessBuffer", i, pData, r.ret, r.hooks, FALSE)
    /\ UNCHANGED <<given, tx_buf, buf_tx_size, inFlight>>

RxCplt(i) ==
    /\ h' = [h EXCEPT ![i] = zetta_recieve_cplt_clb(@)]
    /\ last' = Call("zetta_recieve_cplt_clb", i, 0, ZETTA_OK, <<>>, FALSE)
    /\ UNCHANGED <<given, tx_buf, buf_tx_size, inFlight>>

TxCplt(i) ==
    /\ h' = [h EXCEPT ![i] = zetta_transmit_cplt_clb(@)]
    /\ inFlight' = inFlight \ {i}
    /\ last' = Call("zetta_transmit_cplt_clb", i, 0, ZETTA_OK, <<>>, FALSE)
    /\ UNCHANGED <<given, tx_buf, buf_tx_size>>

\* ------------------------------------------------------------------------
\* Spec: every interleaving of the public operations on one instance that
\* was initialised as in main.c
\* ------------------------------------------------------------------------
Solo == "hzettatx"
\* The frame main-line code sends: one payload byte.
SoloPayload == <<START_BYTE>>

Init == InitWith({zetta1_interface})

SoloSend ==
    /\ Send(Solo, MSG_PUBLISH, SoloPayload, Len(SoloPayload))
    /\ UNCHANGED <<linkVars, mainVars>>

SoloSendTooLong ==
    \E len \in TooLong :
        Send(Solo, MSG_PUBLISH, <<>>, len) /\ UNCHANGED <<linkVars, mainVars>>

SoloParse ==
    \E byte \in FeedBytes :
        Parse(Solo, byte) /\ UNCHANGED <<linkVars, mainVars>>

SoloProcess ==
    \E pData \in FeedBuffers :
        Process(Solo, pData) /\ UNCHANGED <<linkVars, mainVars>>

SoloRxCplt == RxCplt(Solo) /\ UNCHANGED <<linkVars, mainVars>>

SoloTxCplt == TxCplt(Solo) /\ UNCHANGED <<linkVars, mainVars>>

Next ==
    \/ SoloSend
    \/ SoloSendTooLong
    \/ SoloParse
    \/ SoloProcess
    \/ SoloRxCplt
    \/ SoloTxCplt

Spec == Init /\ [][Next]_vars

\* ------------------------------------------------------------------------
\* SpecLink: main.c's two instances on one UART. hzettatx sends frames, the
\* DMA puts the bytes of tx_buf on the wire and reports completion, and the
\* receive interrupt feeds hzettarx one byte at a time.
\* ------------------------------------------------------------------------
Tx == "hzettatx"
Rx == "hzettarx"

\* Changes made to one byte of a frame on the wire (added modulo 256).
CorruptDeltas == {1, 128}

FrameOf(type, len, payload) ==
    [type |-> type, len |-> len, payload |-> payload, bad |-> FALSE]

\* The frame a receiver takes out of its instance after a ZETTA_OK.
Received(z) ==
    FrameOf(Zetta_GetType(z), z.frame.len,
            Zetta_GetPayload(z, [k \in 1..z.frame.len |-> 0]))

LinkInit == InitWith(CallerInterfaces)

LinkSend ==
    \E type \in SendTypes, len \in 0..MaxLen :
        \E pData \in [1..len -> SendBytes] :
            /\ Len(sentLog) < MaxFrames
            /\ Send(Tx, type, pData, len)
            /\ sentLog' = Append(sentLog, FrameOf(type, len, pData))
            /\ UNCHANGED <<wire, rxLog, mainVars>>

\* HAL_UART_TxCpltCallback: the DMA has moved buf_tx_size bytes of tx_buf
\* to the wire.
LinkTxDone ==
    /\ Tx \in inFlight
    /\ wire' = wire \o SubSeq(tx_buf, 1, buf_tx_size)
    /\ TxCplt(Tx)
    /\ UNCHANGED <<sentLog, rxLog, mainVars>>

\* The same with one payload byte or the crc byte changed on the wire, at
\* most once in a run.
LinkTxDoneCorrupt ==
    \E k \in 4..(buf_tx_size - 1), d \in CorruptDeltas :
        /\ Tx \in inFlight
        /\ \A j \in 1..Len(sentLog) : ~sentLog[j].bad
        /\ wire' = wire \o [SubSeq(tx_buf, 1, buf_tx_size)
                               EXCEPT ![k] = (@ + d) % Pow8]
        /\ sentLog' = [sentLog EXCEPT ![Len(sentLog)].bad = TRUE]
        /\ TxCplt(Tx)
        /\ UNCHANGED <<rxLog, mainVars>>

\* HAL_UART_RxCpltCallback: the received byte goes through zetta_ParseByte,
\* a completed frame is taken out, and zetta_recieve_cplt_clb runs.
LinkFeed ==
    /\ wire # <<>>
    /\ ~ParseWaits(h[Rx])
    /\ LET r == zetta_ParseByte(h[Rx], Head(wire))
       IN /\ h' = [h EXCEPT ![Rx] = zetta_recieve_cplt_clb(r.z)]
          /\ rxLog' = IF r.ret = ZETTA_OK
                      THEN Append(rxLog, Received(r.z))
                      ELSE rxLog
          /\ last' = Call("zetta_ParseByte", Rx, Head(wire), r.ret, r.hooks,
                        FALSE)
    /\ wire' = Tail(wire)
    /\ UNCHANGED <<given, tx_buf, buf_tx_size, inFlight, sentLog, mainVars>>

LinkNext ==
    \/ LinkSend
    \/ LinkTxDone
    \/ LinkTxDoneCorrupt
    \/ LinkFeed

SpecLink == LinkInit /\ [][LinkNext]_vars

\* Every frame given to zetta_send has been transmitted and fed.
AllFed == sentLog # <<>> /\ wire = <<>> /\ Tx \notin inFlight

\* ------------------------------------------------------------------------
\* SpecReentrant: two call sites feed hzettarx. Main-line code is inside
\* zetta_ParseByte, past the wait loop, when the receive interrupt runs
\* HAL_UART_RxCpltCallback to completion.
\* ------------------------------------------------------------------------
MainEnter ==
    \E byte \in FeedBytes :
        /\ mainPc = "idle"
        /\ ~ParseWaits(h[Rx])
        /\ mainPc' = "in_parse"
        /\ mainByte' = byte
        /\ UNCHANGED <<h, given, tx_buf, buf_tx_size, inFlight, last, linkVars>>

MainFinish ==
    /\ mainPc = "in_parse"
    /\ LET r == zetta_ParseByte(h[Rx], mainByte)
       IN /\ h' = [h EXCEPT ![Rx] = r.z]
          /\ last' = Call("zetta_ParseByte", Rx, mainByte, r.ret, r.hooks,
                          FALSE)
    /\ mainPc' = "idle"
    /\ UNCHANGED <<given, tx_buf, buf_tx_size, inFlight, linkVars, mainByte>>

IsrFeed ==
    \E byte \in FeedBytes :
        /\ ~ParseWaits(h[Rx])
        /\ LET r == zetta_ParseByte(h[Rx], byte)
           IN /\ h' = [h EXCEPT ![Rx] = zetta_recieve_cplt_clb(r.z)]
              /\ last' = Call("HAL_UART_RxCpltCallback", Rx, byte, r.ret,
                              r.hooks, FALSE)
        /\ UNCHANGED <<given, tx_buf, buf_tx_size, inFlight, linkVars,
                       mainVars>>

ReentrantNext ==
    \/ MainEnter
    \/ MainFinish
    \/ IsrFeed

SpecReentrant == Init /\ [][ReentrantNext]_vars

\* ------------------------------------------------------------------------
\* SpecBatch: a caller hands received buffers to zetta_ProcessBuffer and,
\* after a ZETTA_OK, hands the bytes that were not consumed to the next
\* call. wire holds the unconsumed rest of the last buffer.
\* ------------------------------------------------------------------------
\* Pieces of a byte stream: a whole frame with one payload byte, the head
\* and the tail of that frame (the tail alone is three stray bytes), and a
\* zero-length frame with a wrong crc.
BatchChunks ==
    { <<START_BYTE, 1, 1, 1, 3, STOP_BYTE>>,
      <<START_BYTE, 1, 1>>,
      <<1, 3, STOP_BYTE>>,
      <<START_BYTE, 0, 0, 1, STOP_BYTE>> }

RECURSIVE Joined(_)
Joined(n) ==
    IF n = 0 THEN {<<>>}
    ELSE Joined(n - 1) \cup {b \o c : b \in Joined(n - 1), c \in BatchChunks}

BatchBuffers == Joined(MaxChunks)

ProcessAndKeepRest(pData) ==
    /\ Process(Solo, pData)
    /\ wire' = SubSeq(pData, zetta_ProcessBuffer(h[Solo], pData).used + 1,
                      Len(pData))
    /\ UNCHANGED <<sentLog, rxLog, mainVars>>

BatchProcess == \E pData \in BatchBuffers : ProcessAndKeepRest(pData)

BatchRest == wire # <<>> /\ ProcessAndKeepRest(wire)

BatchNext ==
    \/ BatchProcess
    \/ BatchRest

SpecBatch == Init /\ [][BatchNext]_vars

\* ------------------------------------------------------------------------
\* SpecSend: hzettatx sends frame after frame, each one when the DMA has
\* reported the one before. sentLog holds the arguments of the last
\* zetta_send and wire the bytes the DMA moved out last.
\* ------------------------------------------------------------------------
\* A payload of the largest size.
FullPayload == [k \in 1..MAX_PAYLOAD_SIZE |-> STOP_BYTE]

SendPayloads ==
    {FullPayload} \cup UNION {[1..len -> SendBytes] : len \in 0..MaxLen}

WireSend ==
    \E type \in SendTypes, pData \in SendPayloads :
        /\ Send(Tx, type, pData, Len(pData))
        /\ sentLog' = <<FrameOf(type, Len(pData), pData)>>
        /\ UNCHANGED <<wire, rxLog, mainVars>>

WireSendTooLong ==
    \E len \in TooLong :
        /\ Send(Tx, MSG_PUBLISH, <<>>, len)
        /\ UNCHANGED <<linkVars, mainVars>>

WireTxDone ==
    /\ Tx \in inFlight
    /\ wire' = SubSeq(tx_buf, 1, buf_tx_size)
    /\ TxCplt(Tx)
    /\ UNCHANGED <<sentLog, rxLog, mainVars>>

SendNext ==
    \/ WireSend
    \/ WireSendTooLong
    \/ WireTxDone

SpecSend == LinkInit /\ [][SendNext]_vars

\* ------------------------------------------------------------------------
\* SpecRx: hzettarx as main.c uses it, fed only by the receive interrupt.
\* rxLog holds the frame taken out after the last ZETTA_OK.
\* ------------------------------------------------------------------------
\* Bytes on the line: lengths 0, 1 and 2 (also types, payload and crc
\* bytes) and the two delimiters.
RxBytes == {0, 1, 2, START_BYTE, STOP_BYTE}

\* HAL_UART_RxCpltCallback with any byte in rx_byte.
RxIsr ==
    \E byte \in RxBytes :
        /\ ~ParseWaits(h[Rx])
        /\ LET r == zetta_ParseByte(h[Rx], byte)
           IN /\ h' = [h EXCEPT ![Rx] = zetta_recieve_cplt_clb(r.z)]
              /\ rxLog' = IF r.ret = ZETTA_OK
                          THEN <<Received(r.z)>>
                          ELSE rxLog
              /\ last' = Call("zetta_ParseByte", Rx, byte, r.ret, r.hooks,
                              FALSE)
        /\ UNCHANGED <<given, tx_buf, buf_tx_size, inFlight, wire, sentLog,
                       mainVars>>

SpecRx == Init /\ [][RxIsr]_vars

\* ------------------------------------------------------------------------
\* SpecBound: zetta_send and zetta_ParseByte on one instance with frames of
\* the largest length. Any of BoundBytes arrives as a start, length, crc or
\* stop byte; the type byte is MSG_ACK and the payload bytes, received and
\* sent, are all FillByte.
\* ------------------------------------------------------------------------
FillByte == 0

\* A zero, the largest length and the first length that is too large (also
\* type and crc bytes), and the delimiters.
BoundBytes ==
    {0, MAX_PAYLOAD_SIZE, MAX_PAYLOAD_SIZE + 1, START_BYTE, STOP_BYTE}

BytesAt(z) ==
    CASE z.rx_frame_state = STATE_RX_GET_PAYLOAD -> {FillByte}
      [] z.rx_frame_state = STATE_RX_GET_TYPE -> {MSG_ACK}
      [] OTHER -> BoundBytes

BoundParse ==
    \E byte \in BytesAt(h[Solo]) :
        Parse(Solo, byte) /\ UNCHANGED <<linkVars, mainVars>>

BoundPayloads == {<<>>, [k \in 1..MAX_PAYLOAD_SIZE |-> FillByte]}

BoundSend ==
    \E pData \in BoundPayloads :
        /\ Send(Solo, MSG_PUBLISH, pData, Len(pData))
        /\ UNCHANGED <<linkVars, mainVars>>

BoundSendTooLong ==
    /\ Send(Solo, MSG_PUBLISH, <<>>, MAX_PAYLOAD_SIZE + 1)
    /\ UNCHANGED <<linkVars, mainVars>>

BoundNext ==
    \/ BoundParse
    \/ BoundSend
    \/ BoundSendTooLong
    \/ SoloTxCplt

SpecBound == Init /\ [][BoundNext]_vars

\* ------------------------------------------------------------------------
\* SpecWait: main-line code calls zetta_send on an instance whose callbacks
\* run from interrupts. A call is first inside the wait loop and goes on
\* when it reads a gate other than TX_BUSY. pstate is a plain field written
\* by the interrupt and read by the loop, whose body is empty: a build may
\* read it on every turn ("in_send") or once before the loop
\* ("in_send_stuck", when that one read gave TX_BUSY). Every transmission is
\* followed by HAL_UART_TxCpltCallback, and a loop that polls the gate sees
\* a gate that stays released.
\* ------------------------------------------------------------------------
WaitLens == {0, Len(SoloPayload)} \cup TooLong

WaitCall ==
    \E len \in WaitLens :
        /\ mainPc = "idle"
        /\ mainPc' \in {"in_send"} \cup
                        (IF SendWaits(h[Solo]) THEN {"in_send_stuck"} ELSE {})
        /\ mainByte' = len
        /\ UNCHANGED <<h, given, tx_buf, buf_tx_size, inFlight, last, linkVars>>

\* The call goes on past the loop with the len it was given.
WaitReturn ==
    /\ mainPc = "in_send"
    /\ Send(Solo, MSG_PUBLISH, SoloPayload, mainByte)
    /\ mainPc' = "idle"
    /\ UNCHANGED <<linkVars, mainByte>>

WaitTxDone ==
    /\ Solo \in inFlight
    /\ TxCplt(Solo)
    /\ UNCHANGED <<linkVars, mainVars>>

WaitNext ==
    \/ WaitCall
    \/ WaitReturn
    \/ WaitTxDone
    \/ SoloRxCplt

SpecWait ==
    /\ Init
    /\ [][WaitNext]_vars
    /\ WF_vars(WaitTxDone)
    /\ WF_vars(WaitReturn)

\* ------------------------------------------------------------------------
\* SpecTwo: both instances of main.c send, each with its own completion
\* callback. sentLog holds, for each transmission not yet completed, the
\* instance and the bytes it handed to the transport.
\* ------------------------------------------------------------------------
Pending(log, i) == SelectSeq(log, LAMBDA e : e.inst # i)

TwoPayloads == {<<>>, SoloPayload, FullPayload}

TwoSend ==
    \E i \in Instances, type \in SendTypes, pData \in TwoPayloads :
        /\ Send(i, type, pData, Len(pData))
        /\ sentLog' = Append(Pending(sentLog, i),
                             [inst |-> i,
                              bytes |-> SubSeq(tx_buf', 1, buf_tx_size')])
        /\ UNCHANGED <<wire, rxLog, mainVars>>

TwoTxDone ==
    \E i \in Instances :
        /\ i \in inFlight
        /\ TxCplt(i)
        /\ sentLog' = Pending(sentLog, i)
        /\ UNCHANGED <<wire, rxLog, mainVars>>

TwoNext ==
    \/ TwoSend
    \/ TwoTxDone

SpecTwo == Init /\ [][TwoNext]_vars

\* ------------------------------------------------------------------------
\* SpecProgress: the bytes and the sends of SpecBound up to the first
\* transmission, with an observer of the receive machine. wire holds the
\* bytes fed one after the other since the observer last looked at a
\* machine outside STATE_RX_WAIT_START; it looks again at any time and after
\* every zetta_send.
\* ------------------------------------------------------------------------
ProgParse ==
    \E byte \in BytesAt(h[Solo]) :
        /\ Parse(Solo, byte)
        /\ wire' = IF \/ h[Solo].rx_frame_state = STATE_RX_WAIT_START
                      \/ h'[Solo].rx_frame_state = STATE_RX_WAIT_START
                   THEN <<>>
                   ELSE Append(wire, byte)
        /\ UNCHANGED <<sentLog, rxLog, mainVars>>

ProgLook ==
    /\ wire # <<>>
    /\ wire' = <<>>
    /\ UNCHANGED <<h, given, tx_buf, buf_tx_size, inFlight, last, sentLog,
                   rxLog, mainVars>>

ProgSend ==
    \E len \in {Len(pData) : pData \in BoundPayloads}
                 \cup {MAX_PAYLOAD_SIZE + 1} :
        /\ Send(Solo, MSG_PUBLISH, [k \in 1..len |-> FillByte], len)
        /\ wire' = <<>>
        /\ UNCHANGED <<sentLog, rxLog, mainVars>>

ProgNext ==
    \/ ProgParse
    \/ ProgLook
    \/ ProgSend

SpecProgress == Init /\ [][ProgNext]_vars

\* ------------------------------------------------------------------------
\* Properties
\* ------------------------------------------------------------------------
\* Bytes of the frames that have reached the wire, and the bytes fed so far.
WireLen(f) == 3 + f.len + 2

RECURSIVE FrameEnd(_)
FrameEnd(j) == IF j = 0 THEN 0 ELSE FrameEnd(j - 1) + WireLen(sentLog[j])

OnWire == IF Tx \in inFlight THEN Len(sentLog) - 1 ELSE Len(sentLog)
Fed == FrameEnd(OnWire) - Len(wire)

NoneBad == \A j \in 1..Len(sentLog) : ~sentLog[j].bad

\* The receiving instance holds frame f.
Holds(z, f) ==
    /\ z.frame.type = f.type
    /\ z.frame.len = f.len
    /\ SubSeq(z.frame.payload, 1, f.len) = f.payload

\* C1: round trip. One frame sent by zetta_send and fed byte by byte to the
\* freshly initialised receiver: the last call returns ZETTA_OK, the frame is
\* marked ready, and type, len and payload[0..len) are those that were sent,
\* for every injected integrity function.
C1_RoundTrip ==
    (AllFed /\ Len(sentLog) = 1 /\ NoneBad) =>
        /\ last.op = "zetta_ParseByte"
        /\ last.ret = ZETTA_OK
        /\ h[Rx].payload_ready = 1
        /\ Holds(h[Rx], sentLog[1])

\* C2: a zetta_send with len > MAX_PAYLOAD_SIZE returns
\* ZETTA_ERROR_PAYLOAD_TOO_LARGE, calls the error hook with that code, does
\* not call the transport, and leaves the gate and the transmit buffer as
\* they were.
C2_TooLargeRejected ==
    [][(last'.op = "zetta_send" /\ last'.arg > MAX_PAYLOAD_SIZE) =>
          /\ last'.ret = ZETTA_ERROR_PAYLOAD_TOO_LARGE
          /\ last'.hooks = <<ZETTA_ERROR_PAYLOAD_TOO_LARGE>>
          /\ ~last'.called
          /\ inFlight' = inFlight
          /\ h'[Solo].pstate = h[Solo].pstate
          /\ h'[Solo].pstate # ZETTA_STATE_TX_BUSY
          /\ <<tx_buf', buf_tx_size'>> = <<tx_buf, buf_tx_size>>]_vars

\* C2 witness: an oversized send was rejected after an earlier transmission
\* had completed.
C2_Witness ==
    /\ last.op = "zetta_send"
    /\ last.arg = Pow8 - 1
    /\ last.ret = ZETTA_ERROR_PAYLOAD_TOO_LARGE
    /\ h[Solo].pstate = ZETTA_STATE_TX_READY
    /\ buf_tx_size > 0

\* C3: a frame with one payload byte or its crc byte changed on the wire is
\* never answered with ZETTA_OK, its stop byte raises
\* ZETTA_ERROR_CRC_MISMATCH, it does not mark the frame ready, the receive
\* state is STATE_RX_WAIT_START after it, and the valid frame that follows
\* is accepted.
C3_CorruptRejected ==
    (sentLog # <<>> /\ sentLog[1].bad /\ OnWire >= 1) =>
        /\ Fed <= FrameEnd(1) =>
              (rxLog = <<>> /\ h[Rx].payload_ready = 0)
        /\ (Fed = FrameEnd(1) /\ last.op = "zetta_ParseByte") =>
              /\ last.ret = ZETTA_ERROR
              /\ last.hooks = <<ZETTA_ERROR_CRC_MISMATCH>>
              /\ h[Rx].rx_frame_state = STATE_RX_WAIT_START
        /\ (OnWire = 2 /\ Fed = FrameEnd(2)) =>
              /\ last.ret = ZETTA_OK
              /\ rxLog = <<sentLog[2]>>
              /\ Holds(h[Rx], sentLog[2])

\* C4: two valid frames back to back give ZETTA_OK exactly twice, on the
\* stop byte of each, and after each ZETTA_OK the instance holds the frame
\* just completed.
C4_BackToBack ==
    (Len(sentLog) = 2 /\ OnWire = 2 /\ NoneBad) =>
        /\ rxLog = IF Fed >= FrameEnd(2) THEN <<sentLog[1], sentLog[2]>>
                   ELSE IF Fed >= FrameEnd(1) THEN <<sentLog[1]>>
                   ELSE <<>>
        /\ (last.op = "zetta_ParseByte" /\ last.ret = ZETTA_OK) =>
              /\ Fed \in {FrameEnd(1), FrameEnd(2)}
              /\ Holds(h[Rx], sentLog[IF Fed = FrameEnd(1) THEN 1 ELSE 2])

\* C5: after a zetta_ParseByte call that raised an error the receive state
\* is STATE_RX_WAIT_START and the call returned ZETTA_ERROR; a rejected
\* START_BYTE does not open a frame.
C5_ErrorResets ==
    (last.op = "zetta_ParseByte" /\ last.hooks # <<>>) =>
        /\ h[last.inst].rx_frame_state = STATE_RX_WAIT_START
        /\ last.ret = ZETTA_ERROR

\* C5 witness: a START_BYTE was rejected in GET_STOP and the machine is in
\* STATE_RX_WAIT_START.
C5_Witness ==
    /\ last.op = "zetta_ParseByte"
    /\ last.arg = START_BYTE
    /\ last.hooks = <<ZETTA_ERROR_INVALID_STOP>>
    /\ h[Solo].error = ZETTA_ERROR_INVALID_STOP
    /\ h[Solo].rx_frame_state = STATE_RX_WAIT_START

\* C6: a byte other than START_BYTE fed in STATE_RX_WAIT_START raises
\* ZETTA_ERROR_INVALID_START, returns ZETTA_ERROR, and leaves the receive
\* state, the stored type, len and payload and the ready flag unchanged.
C6_StrayByte ==
    [][(/\ h[Solo].rx_frame_state = STATE_RX_WAIT_START
        /\ last'.op = "zetta_ParseByte"
        /\ last'.arg # START_BYTE) =>
          /\ last'.hooks = <<ZETTA_ERROR_INVALID_START>>
          /\ last'.ret = ZETTA_ERROR
          /\ h'[Solo].rx_frame_state = STATE_RX_WAIT_START
          /\ h'[Solo].frame.type = h[Solo].frame.type
          /\ h'[Solo].frame.len = h[Solo].frame.len
          /\ h'[Solo].frame.payload = h[Solo].frame.payload
          /\ h'[Solo].payload_ready = h[Solo].payload_ready]_vars

\* C6 witness: a stray byte arrived after a frame with a payload byte had
\* been verified.
C6_Witness ==
    /\ last.op = "zetta_ParseByte"
    /\ last.hooks = <<ZETTA_ERROR_INVALID_START>>
    /\ h[Solo].payload_ready = 1
    /\ h[Solo].frame.len = 1
    /\ h[Solo].frame.stop = STOP_BYTE

\* C7: while a transmission is in flight no zetta_send writes tx_buf or
\* calls the transport, and the gate leaves TX_BUSY only through
\* zetta_transmit_cplt_clb.
C7_TxGate ==
    [][/\ (Solo \in inFlight /\ last'.op = "zetta_send") =>
              (~last'.called /\ tx_buf' = tx_buf)
       /\ (/\ h[Solo].pstate = ZETTA_STATE_TX_BUSY
           /\ h'[Solo].pstate # ZETTA_STATE_TX_BUSY) =>
              last'.op = "zetta_transmit_cplt_clb"]_vars

\* C8: the gate is RX_BUSY while a zetta_ParseByte call is in progress, and
\* no other call touches the instance until that call has finished.
C8_RxGate ==
    /\ [](mainPc = "in_parse" => h[Rx].pstate = ZETTA_STATE_RX_BUSY)
    /\ [][(mainPc = "in_parse" /\ mainPc' = "in_parse") => h' = h]_vars

\* C9: the gate is never RX_BUSY, so no zetta_ParseByte call waits.
C9_NeverBlocks == \A i \in Instances : ~ParseWaits(h[i])

\* C9 witness: a byte was parsed while a transmission was in flight and the
\* gate was TX_BUSY.
C9_Witness ==
    /\ last.op = "zetta_ParseByte"
    /\ Solo \in inFlight
    /\ h[Solo].pstate = ZETTA_STATE_TX_BUSY
    /\ h[Solo].rx_frame_state = STATE_RX_GET_CRC

Installed(kept, default) == IF kept = "NULL" THEN default ELSE kept

\* C10: after zetta_init the receive state is STATE_RX_WAIT_START, index is
\* 0, no frame is ready, neither gate is busy, and each callback is the
\* caller's where the caller supplied one and the default otherwise.
C10_InitState ==
    last.op = "zetta_init" =>
        \A i \in Instances :
            /\ h[i].rx_frame_state = STATE_RX_WAIT_START
            /\ h[i].index = 0
            /\ h[i].payload_ready = 0
            /\ ~SendWaits(h[i])
            /\ ~ParseWaits(h[i])
            /\ h[i].interface.rxCpltClbk =
                   Installed(given.rxCpltClbk, "zetta_recieve_cplt_clb")
            /\ h[i].interface.txCpltClbk =
                   Installed(given.txCpltClbk, "zetta_transmit_cplt_clb")
            /\ h[i].interface.OnError =
                   Installed(given.OnError, "zetta_error_manager")

\* The instance after the bytes of s went through zetta_ParseByte one call
\* at a time, and whether byte k of s then completes a frame.
RECURSIVE FedState(_, _)
FedState(z, s) ==
    IF s = <<>> THEN z
    ELSE FedState(zetta_ParseByte(z, Head(s)).z, Tail(s))

\* The values zetta_ParseByte returns for the bytes of s, one call per byte.
RECURSIVE FedRets(_, _)
FedRets(z, s) ==
    IF s = <<>> THEN <<>>
    ELSE LET r == zetta_ParseByte(z, Head(s))
         IN <<r.ret>> \o FedRets(r.z, Tail(s))

\* The first byte of s at which a frame completes, 0 when there is none.
FirstOk(z, s) ==
    LET rets == FedRets(z, s)
        oks == {k \in 1..Len(s) : rets[k] = ZETTA_OK}
    IN IF oks = {} THEN 0
       ELSE CHOOSE k \in oks : \A j \in oks : k <= j

\* C11: zetta_ProcessBuffer feeds the bytes in order to zetta_ParseByte. It
\* returns ZETTA_OK at the first byte that completes a verified frame, with
\* the later bytes unconsumed and the receive state STATE_RX_WAIT_START; it
\* returns ZETTA_ERROR exactly when no byte completes a frame, and then all
\* bytes were consumed and a frame in progress stays in progress.
C11_BatchStopsAtFirstFrame ==
    [][last'.op = "zetta_ProcessBuffer" =>
          \E first \in {FirstOk(h[Solo], last'.arg)} :
              LET pData == last'.arg
                  used == Len(pData) - Len(wire')
              IN /\ h'[Solo] = FedState(h[Solo], SubSeq(pData, 1, used))
                 /\ last'.ret \in {ZETTA_OK, ZETTA_ERROR}
                 /\ last'.ret = ZETTA_ERROR <=> first = 0
                 /\ first # 0 =>
                        /\ used = first
                        /\ wire' = SubSeq(pData, first + 1, Len(pData))
                        /\ h'[Solo].rx_frame_state = STATE_RX_WAIT_START
                        /\ h'[Solo].payload_ready = 1
                 /\ first = 0 =>
                        /\ used = Len(pData)
                        /\ wire' = <<>>]_vars

\* C11 witness: a call that began with the tail of a frame left in progress
\* by the call before returned ZETTA_OK on that frame's stop byte and left
\* the bytes behind it unconsumed.
C11_Witness ==
    /\ last.op = "zetta_ProcessBuffer"
    /\ last.ret = ZETTA_OK
    /\ Len(last.arg) > 3
    /\ SubSeq(last.arg, 1, 3) = <<1, 3, STOP_BYTE>>
    /\ wire = SubSeq(last.arg, 4, Len(last.arg))
    /\ h[Solo].frame.len = 1

\* C12: an accepted zetta_send(type, payload, len) calls the transport once
\* with exactly 3 + len + 2 bytes: START_BYTE, type, len, the payload bytes
\* in order, the integrity byte, STOP_BYTE. The integrity byte is the
\* injected function's result over type, len, payload[0..len) reduced to one
\* byte; for len = 0 the frame is START_BYTE, type, 0, crc, STOP_BYTE.
C12_WireFormat ==
    [][(last'.op = "zetta_send" /\ last'.arg <= MAX_PAYLOAD_SIZE) =>
          LET f == sentLog'[1]
              crc == computeCRC(given.computeCRC,
                                <<f.type, f.len>> \o f.payload) % Pow8
          IN /\ last'.ret = ZETTA_OK
             /\ last'.called
             /\ f.len = last'.arg
             /\ buf_tx_size' = 3 + f.len + 2
             /\ SubSeq(tx_buf', 1, buf_tx_size') =
                    <<START_BYTE, f.type, f.len>> \o f.payload
                        \o <<crc, STOP_BYTE>>
             /\ f.len = 0 =>
                    SubSeq(tx_buf', 1, 5) =
                        <<START_BYTE, f.type, 0,
                          computeCRC(given.computeCRC, <<f.type, 0>>) % Pow8,
                          STOP_BYTE>>]_vars

\* C12 witness: a zero-length frame was sent after a frame with a payload,
\* whose bytes are still in the instance's frame record.
C12_Witness ==
    /\ last.op = "zetta_send"
    /\ last.arg = 0
    /\ last.called
    /\ buf_tx_size = 5
    /\ wire # <<>>
    /\ h[Tx].frame.payload[1] = START_BYTE
    /\ given.computeCRC = "sum32"

\* C13: in GET_STOP with the stop delimiter received, the frame is accepted
\* (ZETTA_OK, frame marked ready) if and only if the integrity function's
\* result over type, len, payload[0..len), cut to its low 8 bits, equals
\* the received crc byte, for every 32-bit result of the function.
C13_TruncatedCompare ==
    [][(/\ h[Rx].rx_frame_state = STATE_RX_GET_STOP
        /\ last'.op = "zetta_ParseByte"
        /\ last'.arg = STOP_BYTE) =>
          /\ last'.ret = ZETTA_OK <=>
                 zetta_compute_crc(h[Rx]) % Pow8 = h[Rx].frame.crc
          /\ last'.ret = ZETTA_OK => h'[Rx].payload_ready = 1]_vars

\* C14: a zero-length frame is received without entering the payload
\* state. In GET_LEN a length byte 0 moves the machine directly to
\* STATE_RX_GET_CRC; a length byte in 1..MAX_PAYLOAD_SIZE moves it to
\* STATE_RX_GET_PAYLOAD, where exactly that many bytes are stored before
\* STATE_RX_GET_CRC; the integrity check of a zero-length frame covers
\* exactly the two bytes type and len.
C14_ZeroLength ==
    [][last'.op = "zetta_ParseByte" =>
          LET z == h[Rx]
              z2 == h'[Rx]
              byte == last'.arg
          IN /\ (z.rx_frame_state = STATE_RX_GET_LEN /\ byte = 0) =>
                    /\ z2.rx_frame_state = STATE_RX_GET_CRC
                    /\ z2.frame.len = 0
             /\ (z.rx_frame_state = STATE_RX_GET_LEN
                    /\ byte \in 1..MAX_PAYLOAD_SIZE) =>
                    /\ z2.rx_frame_state = STATE_RX_GET_PAYLOAD
                    /\ z2.frame.len = byte
                    /\ z2.index = 0
             /\ z2.rx_frame_state = STATE_RX_GET_PAYLOAD =>
                    /\ z.rx_frame_state
                          \in {STATE_RX_GET_LEN, STATE_RX_GET_PAYLOAD}
                    /\ z2.frame.len >= 1
                    /\ z2.index < z2.frame.len
             /\ z.rx_frame_state = STATE_RX_GET_PAYLOAD =>
                    /\ z2.frame.len = z.frame.len
                    /\ z2.index = z.index + 1
                    /\ z2.frame.payload =
                           [z.frame.payload EXCEPT ![z.index + 1] = byte]
                    /\ z2.rx_frame_state =
                           IF z2.index = z.frame.len
                           THEN STATE_RX_GET_CRC
                           ELSE STATE_RX_GET_PAYLOAD
             /\ z2.rx_frame_state
                    \in {STATE_RX_GET_CRC, STATE_RX_GET_STOP} =>
                    z2.index = z2.frame.len
             /\ (/\ z.rx_frame_state = STATE_RX_GET_STOP
                 /\ z.frame.len = 0
                 /\ byte = STOP_BYTE) =>
                    (last'.ret = ZETTA_OK <=>
                        computeCRC(given.computeCRC, <<z.frame.type, 0>>)
                            % Pow8 = z.frame.crc)]_vars

\* C14 witness: a zero-length frame was accepted after a frame with two
\* payload bytes, which are still in the payload array.
C14_Witness ==
    /\ last.op = "zetta_ParseByte"
    /\ last.ret = ZETTA_OK
    /\ h[Rx].frame.len = 0
    /\ h[Rx].frame.type = 2
    /\ h[Rx].index = 0
    /\ h[Rx].frame.payload[2] = STOP_BYTE

\* C15: the outbound and the inbound frame are separate. A zetta_send call,
\* accepted or rejected with PayloadTooLarge, issued between two bytes of an
\* inbound frame leaves the receive state, the payload index and the type,
\* len, payload and crc bytes received so far unchanged, so that the inbound
\* frame still completes with its original fields.
C15_SeparateFrames ==
    [][(/\ last'.op = "zetta_send"
        /\ h[Solo].rx_frame_state # STATE_RX_WAIT_START) =>
          LET z == h[Solo]
              z2 == h'[Solo]
          IN /\ z2.rx_frame_state = z.rx_frame_state
             /\ z2.index = z.index
             /\ z.rx_frame_state >= STATE_RX_GET_LEN =>
                    z2.frame.type = z.frame.type
             /\ z.rx_frame_state >= STATE_RX_GET_PAYLOAD =>
                    /\ z2.frame.len = z.frame.len
                    /\ SubSeq(z2.frame.payload, 1, z.index) =
                           SubSeq(z.frame.payload, 1, z.index)
             /\ z.rx_frame_state = STATE_RX_GET_STOP =>
                    z2.frame.crc = z.frame.crc]_vars

\* C16: a verified frame is immutable until the next frame is verified. In
\* every state where the ready flag is set, the type and the payload that
\* Zetta_GetType and Zetta_GetPayload return are those of the most recent
\* frame that passed the integrity check, also while the bytes of a later
\* frame are being received and after a later frame was rejected.
C16_VerifiedFrameKept ==
    h[Rx].payload_ready = 1 =>
        /\ rxLog # <<>>
        /\ Zetta_GetType(h[Rx]) = rxLog[1].type
        /\ Zetta_GetPayload(h[Rx], ZeroPayload) =
               Memcpy(ZeroPayload, rxLog[1].payload, rxLog[1].len)

\* C17: in every state reached by zetta_send and zetta_ParseByte calls the
\* stored frame len is at most MAX_PAYLOAD_SIZE and every payload write in
\* GET_PAYLOAD is at an index below MAX_PAYLOAD_SIZE; a received length
\* byte above MAX_PAYLOAD_SIZE is rejected with
\* ZETTA_ERROR_PAYLOAD_TOO_LARGE without being stored, and no frame with
\* such a length is reported complete.
C17_LenBounded ==
    [][/\ h'[Solo].frame.len <= MAX_PAYLOAD_SIZE
       /\ last'.op = "zetta_ParseByte" =>
             LET z == h[Solo]
                 z2 == h'[Solo]
                 byte == last'.arg
             IN /\ z.rx_frame_state = STATE_RX_GET_PAYLOAD =>
                       /\ z.index < MAX_PAYLOAD_SIZE
                       /\ z2.frame.payload[z.index + 1] = byte
                /\ (z.rx_frame_state = STATE_RX_GET_LEN
                       /\ byte > MAX_PAYLOAD_SIZE) =>
                       /\ last'.ret = ZETTA_ERROR
                       /\ last'.hooks = <<ZETTA_ERROR_PAYLOAD_TOO_LARGE>>
                       /\ z2.frame.len = z.frame.len
                       /\ z2.rx_frame_state = STATE_RX_WAIT_START
                /\ last'.ret = ZETTA_OK =>
                       /\ z.rx_frame_state = STATE_RX_GET_STOP
                       /\ z.frame.len <= MAX_PAYLOAD_SIZE
                       /\ z2.frame.len = z.frame.len]_vars

\* C17 witness: a received frame of the largest length was reported
\* complete after its last payload byte was written at the last index.
C17_Witness ==
    /\ last.op = "zetta_ParseByte"
    /\ last.ret = ZETTA_OK
    /\ h[Solo].frame.len = MAX_PAYLOAD_SIZE
    /\ h[Solo].index = MAX_PAYLOAD_SIZE
    /\ h[Solo].frame.crc = MAX_PAYLOAD_SIZE

\* C18: when every transmission handed to the transport is followed by
\* zetta_transmit_cplt_clb on the same instance, every zetta_send call
\* eventually returns; and a zetta_send issued while the gate is TX_BUSY
\* does not return and does not reach the transport before that callback.
C18_SendReturns ==
    /\ (mainPc # "idle") ~> (mainPc = "idle")
    /\ [][(mainPc # "idle" /\ Solo \in inFlight) =>
              (mainPc' # "idle" /\ ~(last' # last /\ last'.called))]_vars

\* C19: each instance owns its transmit buffer. The bytes an instance handed
\* to the transport stay unchanged in the buffer the transport was given
\* until that instance's transmit-completion callback runs, whatever
\* zetta_send calls the other instance makes in between.
C19_OwnTxBuffer ==
    \A k \in 1..Len(sentLog) :
        sentLog[k].inst \in inFlight =>
            SubSeq(tx_buf, 1, Len(sentLog[k].bytes)) = sentLog[k].bytes

\* C20: the receive machine makes progress on input. From any reachable
\* receive state other than STATE_RX_WAIT_START, MAX_PAYLOAD_SIZE + 4 bytes
\* fed through zetta_ParseByte bring the machine through
\* STATE_RX_WAIT_START at least once, and the machine leaves
\* STATE_RX_WAIT_START only on a byte equal to START_BYTE.
C20_RxProgress ==
    [][/\ Len(wire') < MAX_PAYLOAD_SIZE + 4
       /\ (/\ last'.op = "zetta_ParseByte"
           /\ h[Solo].rx_frame_state = STATE_RX_WAIT_START
           /\ h'[Solo].rx_frame_state # STATE_RX_WAIT_START) =>
              last'.arg = START_BYTE]_vars

\* C20 witness: MAX_PAYLOAD_SIZE + 3 bytes were fed from STATE_RX_GET_TYPE
\* without the machine passing through STATE_RX_WAIT_START: the type, the
\* largest length, that many payload bytes and the crc.
C20_Witness ==
    /\ Len(wire) = MAX_PAYLOAD_SIZE + 3
    /\ h[Solo].rx_frame_state = STATE_RX_GET_STOP
    /\ h[Solo].frame.len = MAX_PAYLOAD_SIZE
    /\ h[Solo].index = MAX_PAYLOAD_SIZE

====
